---- MODULE Spec2Model ----
(***************************************************************************)
(* Branch predictor simulator (sim_bp.c): the bimodal, gshare and hybrid   *)
(* predictors and the trace loop of main.                                  *)
(*                                                                         *)
(* C integers are modelled as sets of bit positions (bit b is set iff      *)
(* b is in the set), so that shifts, masks and XOR are computed as the     *)
(* code computes them and keep their width: unsigned long has bits 0..63,  *)
(* int and unsigned int have bits 0..31.  Small values that live in the    *)
(* state (addresses, counters, table sizes) are naturals and are           *)
(* converted with Bits and Val; the history register, an unsigned int, is  *)
(* kept as its set of bits.                                                *)
(*                                                                         *)
(* The program is run twice on the same command line and the same trace    *)
(* (params / params2): every choice the C standard leaves open is drawn    *)
(* independently for the two runs.                                         *)
(***************************************************************************)
EXTENDS Integers, Sequences, FiniteSets, TLC

VARIABLES pc, params, predictions, mispredictions, addr, outcome, correct,
          params2, mispredictions2, correct2, recent

vars == <<pc, params, predictions, mispredictions, addr, outcome, correct,
          params2, mispredictions2, correct2, recent>>

(***************************************************************************)
(* Bounds of the model.                                                    *)
(***************************************************************************)
MaxK == 1
MaxM1 == 2
MaxM2 == 1
MaxN == 2
MaxEvents == 5
MaxScenarioM2 == 2

(***************************************************************************)
(* Widths of the C types of the build (LP64).                              *)
(***************************************************************************)
ULongBits == 64
IntBits == 32

\* Addresses of the trace records: 0x0, 0x4 and 0x1e (alignment bits set,
\* index bits 2..4 set).
Addrs == {0, 4, 30}

\* recent holds the outcomes of the last RecentLen records read, newest
\* first: the N outcomes a history register can hold and two more.
RecentLen == MaxN + 2

Min(x, y) == IF x <= y THEN x ELSE y
Max(x, y) == IF x >= y THEN x ELSE y

\* Outcome characters of the trace records.
Outcomes == {"t", "n"}

BpNames == {"bimodal", "gshare", "hybrid"}

\* The value of a field of bp_params that nothing has assigned yet.
Indeterminate == "indeterminate"

(***************************************************************************)
(* Bit-level arithmetic.                                                   *)
(***************************************************************************)
RECURSIVE BitsFrom(_, _)
\* The bits of the natural n, the lowest of them counted as bit b.
BitsFrom(n, b) ==
    IF n = 0 THEN {}
    ELSE (IF n % 2 = 1 THEN {b} ELSE {}) \cup BitsFrom(n \div 2, b + 1)

\* The bits of a natural.
Bits(n) == BitsFrom(n, 0)

RECURSIVE Val(_)
\* The natural a set of bit positions (all below 31) stands for.
Val(x) == IF x = {} THEN 0
          ELSE LET b == CHOOSE c \in x : TRUE IN (2^b) + Val(x \ {b})

BitAnd(x, y) == x \cap y
BitOr(x, y) == x \cup y
BitXor(x, y) == (x \ y) \cup (y \ x)

\* x >> n on an unsigned operand, for a shift count within the width.
Shr(x, n) == {b - n : b \in {c \in x : c >= n}}

\* x << n on an unsigned long operand, for a shift count within the width.
ShlUL(x, n) == {b + n : b \in x} \cap (0..(ULongBits - 1))

\* 1 << n, the int the code builds its masks from, for 0 <= n <= 30.
Shl1(n) == {n}

\* x - 1 on an int x (two's complement; 0 - 1 is all ones).
Minus1(x) == IF x = {} THEN 0..(IntBits - 1)
             ELSE LET l == CHOOSE c \in x : \A d \in x : c <= d
                  IN (x \ {l}) \cup (0..(l - 1))

\* An int converted to unsigned long (sign extension).
IntToUL(x) == IF (IntBits - 1) \in x THEN x \cup (IntBits..(ULongBits - 1)) ELSE x

\* (1 << n) - 1, an int, as the code writes its masks.
Mask(n) == Minus1(Shl1(n))

\* The values an int shift by a count outside 0..31 can produce: the count
\* taken modulo 32 (1 << 31) or the operand shifted out (0).
UndefinedShift == {{}, {IntBits - 1}}

(***************************************************************************)
(* bp_params and init_predictor.                                           *)
(***************************************************************************)
\* A table pointer that nothing has assigned yet.
NoTable == [ptr |-> Indeterminate, mem |-> <<>>]

\* NewTable leaving the counters at 0, as calloc would.
NewTableZeroed(m, v) ==
    [ptr |-> "heap", mem |-> [i \in 0..(Val(IntToUL(Shl1(m))) - 1) |-> 0]]

\* malloc of 1 << m counters, each then set to v.
NewTable(m, v) ==
    [ptr |-> "heap", mem |-> [i \in 0..(Val(IntToUL(Shl1(m))) - 1) |-> v]]

\* The bp_params of main before any assignment.
Uninitialized ==
    [K |-> Indeterminate, M1 |-> Indeterminate, M2 |-> Indeterminate,
     N |-> Indeterminate, bp_name |-> Indeterminate,
     bimodal_table |-> NoTable, gshare_table |-> NoTable,
     chooser_table |-> NoTable, global_history |-> Indeterminate]

\* The fields main assigns from the command line of each predictor.
ParseArgs(p, name, k, m1, n, m2) ==
    CASE name = "bimodal" -> [p EXCEPT !.bp_name = name, !.M2 = m2]
      [] name = "gshare"  -> [p EXCEPT !.bp_name = name, !.M1 = m1, !.N = n]
      [] name = "hybrid"  -> [p EXCEPT !.bp_name = name, !.K = k, !.M1 = m1,
                                       !.N = n, !.M2 = m2]

\* init_predictor setting the chooser counters to 2 like the others.
init_predictor_chooser2(p) ==
    CASE p.bp_name = "bimodal" ->
            [p EXCEPT !.bimodal_table = NewTable(p.M2, 2)]
      [] p.bp_name = "gshare" ->
            [p EXCEPT !.gshare_table = NewTable(p.M1, 2), !.global_history = {}]
      [] p.bp_name = "hybrid" ->
            [p EXCEPT !.chooser_table = NewTable(p.K, 2),
                      !.gshare_table = NewTable(p.M1, 2),
                      !.bimodal_table = NewTable(p.M2, 2),
                      !.global_history = {}]

init_predictor(p) ==
    CASE p.bp_name = "bimodal" ->
            [p EXCEPT !.bimodal_table = NewTable(p.M2, 2)]
      [] p.bp_name = "gshare" ->
            [p EXCEPT !.gshare_table = NewTable(p.M1, 2), !.global_history = {}]
      [] p.bp_name = "hybrid" ->
            [p EXCEPT !.chooser_table = NewTable(p.K, 1),
                      !.gshare_table = NewTable(p.M1, 2),
                      !.bimodal_table = NewTable(p.M2, 2),
                      !.global_history = {}]

\* free of one table pointer that init_predictor has set.
FreeTable(t) == IF t.ptr = "heap" THEN [ptr |-> "freed", mem |-> <<>>] ELSE t

free_predictor(p) ==
    [p EXCEPT !.bimodal_table = FreeTable(@), !.gshare_table = FreeTable(@),
              !.chooser_table = FreeTable(@)]

\* free_predictor tests a pointer nothing has assigned.
TestsIndeterminate(p) ==
    \/ p.bimodal_table.ptr = Indeterminate
    \/ p.gshare_table.ptr = Indeterminate
    \/ p.chooser_table.ptr = Indeterminate

(***************************************************************************)
(* The predictors.  Each returns the new bp_params and the int it returns. *)
(***************************************************************************)
\* UpdateCounter clearing the counter on a not-taken outcome.
UpdateCounterReset(prediction, o) ==
    IF o = "t"
    THEN (IF prediction < 3 THEN prediction + 1 ELSE prediction)
    ELSE 0

\* UpdateCounter moving the counter by two, within 0..3.
UpdateCounterByTwo(prediction, o) ==
    IF o = "t"
    THEN (IF prediction < 2 THEN prediction + 2 ELSE 3)
    ELSE (IF prediction > 1 THEN prediction - 2 ELSE 0)

\* UpdateCounter without its two guards: the unsigned char wraps around.
UpdateCounterWrapping(prediction, o) ==
    IF o = "t" THEN (prediction + 1) % 256 ELSE (prediction + 255) % 256

\* The saturating update of a 2-bit counter read as prediction.
UpdateCounter(prediction, o) ==
    IF o = "t"
    THEN (IF prediction < 3 THEN prediction + 1 ELSE prediction)
    ELSE (IF prediction > 0 THEN prediction - 1 ELSE prediction)

\* pred_taken == (outcome == 't'), as the int the predictors return.
Matches(pred_taken, o) == IF pred_taken = (o = "t") THEN 1 ELSE 0

\* PcIndex with the address shifted by 3: 0x0 and 0x4 share an index.
PcIndexShiftedBy3(a, m) == BitAnd(Shr(Bits(a), 3), IntToUL(Mask(m)))

\* PcIndex without the shift that drops the two alignment bits.
PcIndexUnshifted(a, m) == BitAnd(Bits(a), IntToUL(Mask(m)))

\* (addr >> 2) & ((1 << m) - 1): the index of the bimodal and chooser tables.
PcIndex(a, m) == BitAnd(Shr(Bits(a), 2), IntToUL(Mask(m)))

\* GshareIndex combining the address bits and the history with OR.
GshareIndexOr(p, a) ==
    LET pc_upper_n  == BitAnd(Shr(Bits(a), p.M1 - p.N + 2), IntToUL(Mask(p.N)))
        xor_result  == BitOr(pc_upper_n, BitAnd(p.global_history, Mask(p.N)))
        mlessn_bits == BitAnd(Shr(Bits(a), 2), IntToUL(Mask(p.M1 - p.N)))
    IN  BitOr(ShlUL(xor_result, p.M1 - p.N), mlessn_bits)

\* GshareIndex with the XORed bits shifted by M1 instead of M1 - N.
GshareIndexShiftedByM1(p, a) ==
    LET pc_upper_n  == BitAnd(Shr(Bits(a), p.M1 - p.N + 2), IntToUL(Mask(p.N)))
        xor_result  == BitXor(pc_upper_n, BitAnd(p.global_history, Mask(p.N)))
        mlessn_bits == BitAnd(Shr(Bits(a), 2), IntToUL(Mask(p.M1 - p.N)))
    IN  BitOr(ShlUL(xor_result, p.M1), mlessn_bits)

\* The index of the gshare table, for N <= M1.
GshareIndex(p, a) ==
    LET pc_upper_n  == BitAnd(Shr(Bits(a), p.M1 - p.N + 2), IntToUL(Mask(p.N)))
        xor_result  == BitXor(pc_upper_n, BitAnd(p.global_history, Mask(p.N)))
        mlessn_bits == BitAnd(Shr(Bits(a), 2), IntToUL(Mask(p.M1 - p.N)))
    IN  BitOr(ShlUL(xor_result, p.M1 - p.N), mlessn_bits)

\* UpdateHistory shifting left and inserting the outcome at bit 0.
UpdateHistoryLeft(gh, n, o, ub) ==
    IF o = "t"
    THEN BitAnd(BitOr({0}, {b + 1 : b \in gh}), Mask(n))
    ELSE BitAnd({b + 1 : b \in gh}, Mask(n))

\* UpdateHistory without the mask to N bits.
UpdateHistoryUnmasked(gh, n, o, ub) ==
    IF o = "t" THEN BitOr(ub, Shr(gh, 1)) ELSE Shr(gh, 1)

\* The new global history register; ub is what 1 << (N - 1) yields (see
\* ShiftChoices).
UpdateHistory(gh, n, o, ub) ==
    IF o = "t"
    THEN BitAnd(BitOr(ub, Shr(gh, 1)), Mask(n))
    ELSE BitAnd(Shr(gh, 1), Mask(n))

\* FinalPrediction with the two votes swapped.
FinalPredictionSwapped(chooser, gshare_taken, bimodal_taken) ==
    IF chooser >= 2 THEN bimodal_taken ELSE gshare_taken

\* The prediction hybrid_predict returns: the vote of the predictor the
\* chooser counter selects.
FinalPrediction(chooser, gshare_taken, bimodal_taken) ==
    IF chooser >= 2 THEN gshare_taken ELSE bimodal_taken

\* TrainChosen training both predictors on every record.
TrainBoth(p, chooser, gshare_index, bimodal_index, o) ==
    [p EXCEPT !.gshare_table.mem[gshare_index] = UpdateCounter(@, o),
              !.bimodal_table.mem[bimodal_index] = UpdateCounter(@, o)]

\* hybrid_predict trains the predictor the chooser counter selects.
TrainChosen(p, chooser, gshare_index, bimodal_index, o) ==
    IF chooser >= 2
    THEN [p EXCEPT !.gshare_table.mem[gshare_index] = UpdateCounter(@, o)]
    ELSE [p EXCEPT !.bimodal_table.mem[bimodal_index] = UpdateCounter(@, o)]

\* UpdateChooser moving whenever one predictor is correct, whatever the other.
UpdateChooserOneSided(chooser, gshare_correct, bimodal_correct) ==
    IF gshare_correct
    THEN (IF chooser < 3 THEN chooser + 1 ELSE chooser)
    ELSE IF bimodal_correct
         THEN (IF chooser > 0 THEN chooser - 1 ELSE chooser)
         ELSE chooser

\* The new chooser counter.
UpdateChooser(chooser, gshare_correct, bimodal_correct) ==
    IF gshare_correct /\ ~bimodal_correct
    THEN (IF chooser < 3 THEN chooser + 1 ELSE chooser)
    ELSE IF bimodal_correct /\ ~gshare_correct
         THEN (IF chooser > 0 THEN chooser - 1 ELSE chooser)
         ELSE chooser

\* bimodal_predict predicting from the counter it has just updated.
bimodal_predict_updated_first(p, a, o) ==
    LET Body(index) ==
            LET updated    == UpdateCounter(p.bimodal_table.mem[index], o)
                pred_taken == updated >= 2
            IN  [params |-> [p EXCEPT !.bimodal_table.mem[index] = updated],
                 ret    |-> Matches(pred_taken, o)]
    IN  Body(Val(PcIndex(a, p.M2)))

bimodal_predict(p, a, o) ==
    LET Body(index) ==
            LET prediction == p.bimodal_table.mem[index]
                pred_taken == prediction >= 2
            IN  [params |-> [p EXCEPT !.bimodal_table.mem[index] =
                                          UpdateCounter(prediction, o)],
                 ret    |-> Matches(pred_taken, o)]
    IN  Body(Val(PcIndex(a, p.M2)))

gshare_predict(p, a, o, ub) ==
    LET Body(index) ==
            LET prediction == p.gshare_table.mem[index]
                pred_taken == prediction >= 2
            IN  [params |-> [p EXCEPT !.gshare_table.mem[index] =
                                          UpdateCounter(prediction, o),
                                      !.global_history = UpdateHistory(@, p.N, o, ub)],
                 ret    |-> Matches(pred_taken, o)]
    IN  Body(Val(GshareIndex(p, a)))

hybrid_predict(p, a, o, ub) ==
    LET Body(gshare_index, bimodal_index, chooser_index) ==
            LET gshare_taken     == p.gshare_table.mem[gshare_index] >= 2
                bimodal_taken    == p.bimodal_table.mem[bimodal_index] >= 2
                chooser          == p.chooser_table.mem[chooser_index]
                final_prediction == FinalPrediction(chooser, gshare_taken,
                                                    bimodal_taken)
                trained          == TrainChosen(p, chooser, gshare_index,
                                                bimodal_index, o)
                gshare_correct   == Matches(gshare_taken, o) = 1
                bimodal_correct  == Matches(bimodal_taken, o) = 1
            IN  [params |-> [trained EXCEPT
                                !.global_history = UpdateHistory(@, p.N, o, ub),
                                !.chooser_table.mem[chooser_index] =
                                    UpdateChooser(chooser, gshare_correct,
                                                  bimodal_correct)],
                 ret    |-> Matches(final_prediction, o)]
    IN  Body(Val(GshareIndex(p, a)), Val(PcIndex(a, p.M2)), Val(PcIndex(a, p.K)))

\* The call main makes for one record.
Predict(p, a, o, ub) ==
    CASE p.bp_name = "bimodal" -> bimodal_predict(p, a, o)
      [] p.bp_name = "gshare"  -> gshare_predict(p, a, o, ub)
      [] p.bp_name = "hybrid"  -> hybrid_predict(p, a, o, ub)

\* n - 1 on an unsigned long n: 0 - 1 wraps around to all ones.
ULMinus1(n) == IF n = 0 THEN 0..(ULongBits - 1) ELSE Bits(n - 1)

\* The counts of the shifts of an int that the history update of one record
\* evaluates: N - 1 (taken only) and N, both unsigned long.
HistoryShiftCounts(p, o) ==
    IF o = "t" THEN {ULMinus1(p.N), Bits(p.N)} ELSE {Bits(p.N)}

\* A shift count within the width of an int: at most IntBits - 1.
InIntRange(count) == count \subseteq Bits(IntBits - 1)

\* ShiftChoices with the taken bit built as 1 << N.
ShiftChoicesByN(p, o) ==
    IF p.bp_name # "bimodal" /\ o = "t" THEN {Shl1(p.N)} ELSE {{}}

\* The values 1 << (N - 1) can yield in the history update of one record:
\* the shift is defined (and the choice unused) unless N is 0 and the branch
\* is taken.
ShiftChoices(p, o) ==
    IF p.bp_name # "bimodal" /\ o = "t"
    THEN (IF p.N = 0 THEN UndefinedShift ELSE {Shl1(p.N - 1)})
    ELSE {{}}

\* Every shift of the predictor has a count within the width of its operand
\* (N = 0 apart, see UpdateHistory): bimodal has none that depends on N.
ShiftsDefined(p) == IF p.bp_name = "bimodal" THEN TRUE ELSE p.N <= p.M1

(***************************************************************************)
(* main.                                                                   *)
(***************************************************************************)
\* addr, outcome and correct are not read before the first record sets them.
Init ==
    /\ pc = "start"
    /\ params = Uninitialized
    /\ params2 = Uninitialized
    /\ predictions = 0
    /\ mispredictions = 0
    /\ mispredictions2 = 0
    /\ addr = 0
    /\ outcome = "n"
    /\ correct = 0
    /\ correct2 = 0
    /\ recent = <<>>

\* main reads the command line and calls init_predictor.
Setup ==
    /\ pc = "start"
    /\ \E name \in BpNames, k \in 0..MaxK, m1 \in 0..MaxM1, n \in 0..MaxN,
          m2 \in 0..MaxM2 :
          /\ params' = init_predictor(ParseArgs(params, name, k, m1, n, m2))
          /\ params2' = init_predictor(ParseArgs(params2, name, k, m1, n, m2))
    /\ pc' = "open"
    /\ UNCHANGED <<predictions, mispredictions, mispredictions2, addr, outcome,
                   correct, correct2, recent>>

\* fopen succeeds.
OpenTrace ==
    /\ pc = "open"
    /\ pc' = "loop"
    /\ UNCHANGED <<params, params2, predictions, mispredictions, mispredictions2,
                   addr, outcome, correct, correct2, recent>>

\* fopen fails: free_predictor, exit.  A pointer nothing has assigned tests
\* as null or as non-null; free of the latter is undefined.
OpenFail ==
    /\ pc = "open"
    /\ \E nonnull \in BOOLEAN :
          IF TestsIndeterminate(params) /\ nonnull
          THEN pc' = "undefined" /\ UNCHANGED <<params, params2>>
          ELSE /\ pc' = "exit"
               /\ params' = free_predictor(params)
               /\ params2' = free_predictor(params2)
    /\ UNCHANGED <<predictions, mispredictions, mispredictions2, addr, outcome,
                   correct, correct2, recent>>

\* CountMisprediction counting the records predicted correctly.
CountHit(m, ret) == IF ret = 0 THEN m ELSE m + 1

\* if (!correct) mispredictions++;
CountMisprediction(m, ret) == IF ret = 0 THEN m + 1 ELSE m

\* One iteration of the trace loop on the record (a, o) fscanf has read: the
\* predictor of bp_name is called, the counts are updated.
Iteration(a, o) ==
    /\ pc = "loop"
    /\ ShiftsDefined(params)
    /\ \E ub \in ShiftChoices(params, o), ub2 \in ShiftChoices(params2, o) :
          \E r \in {Predict(params, a, o, ub)}, r2 \in {Predict(params2, a, o, ub2)} :
              /\ addr' = a
              /\ outcome' = o
              /\ params' = r.params
              /\ correct' = r.ret
              /\ mispredictions' = CountMisprediction(mispredictions, r.ret)
              /\ params2' = r2.params
              /\ correct2' = r2.ret
              /\ mispredictions2' = CountMisprediction(mispredictions2, r2.ret)
              /\ recent' = SubSeq(<<o>> \o recent, 1, Min(Len(recent) + 1, RecentLen))
    /\ predictions' = predictions + 1
    /\ pc' = "loop"

\* One iteration under N > M1: the shift counts M1 - N wrap around, the
\* index is whatever the shifts yield and the access may leave the table.
IterationUndefined(a, o) ==
    /\ pc = "loop"
    /\ ~ShiftsDefined(params)
    /\ addr' = a
    /\ outcome' = o
    /\ predictions' = predictions + 1
    /\ pc' = "undefined"
    /\ UNCHANGED <<params, params2, mispredictions, mispredictions2, correct,
                   correct2, recent>>

\* The trace file holds another record, any one.
ReadRecord ==
    /\ predictions < MaxEvents
    /\ \E a \in Addrs, o \in Outcomes : Iteration(a, o)

ReadRecordUndefined ==
    /\ predictions < MaxEvents
    /\ \E a \in Addrs, o \in Outcomes : IterationUndefined(a, o)

\* fscanf returns EOF: the report is printed and main returns.
EndOfTrace ==
    /\ pc = "loop"
    /\ pc' = "done"
    /\ UNCHANGED <<params, params2, predictions, mispredictions, mispredictions2,
                   addr, outcome, correct, correct2, recent>>

Next ==
    \/ Setup
    \/ OpenTrace
    \/ OpenFail
    \/ ReadRecord
    \/ ReadRecordUndefined
    \/ EndOfTrace

Spec == Init /\ [][Next]_vars

(***************************************************************************)
(* main on the trace file of the end-to-end scenario, under every command  *)
(* line whose bimodal table has up to 2^MaxScenarioM2 counters.            *)
(***************************************************************************)
\* The records of the trace file: 0x0 t, 0x4 n, 0x0 t, 0x8 t.
ScenarioTrace ==
    << [addr |-> 0, outcome |-> "t"], [addr |-> 4, outcome |-> "n"],
       [addr |-> 0, outcome |-> "t"], [addr |-> 8, outcome |-> "t"] >>

\* main reads the command line and calls init_predictor.
ScenarioSetup ==
    /\ pc = "start"
    /\ \E name \in BpNames, k \in 0..MaxK, m1 \in 0..MaxM1, n \in 0..MaxN,
          m2 \in 0..MaxScenarioM2 :
          /\ params' = init_predictor(ParseArgs(params, name, k, m1, n, m2))
          /\ params2' = init_predictor(ParseArgs(params2, name, k, m1, n, m2))
    /\ pc' = "open"
    /\ UNCHANGED <<predictions, mispredictions, mispredictions2, addr, outcome,
                   correct, correct2, recent>>

\* fscanf reads the next record of the file.
ScenarioRecord ==
    /\ predictions < Len(ScenarioTrace)
    /\ Iteration(ScenarioTrace[predictions + 1].addr,
                 ScenarioTrace[predictions + 1].outcome)

ScenarioRecordUndefined ==
    /\ predictions < Len(ScenarioTrace)
    /\ IterationUndefined(ScenarioTrace[predictions + 1].addr,
                          ScenarioTrace[predictions + 1].outcome)

\* fscanf returns EOF after the last record.
ScenarioEnd ==
    /\ predictions = Len(ScenarioTrace)
    /\ EndOfTrace

ScenarioNext ==
    \/ ScenarioSetup
    \/ OpenTrace
    \/ OpenFail
    \/ ScenarioRecord
    \/ ScenarioRecordUndefined
    \/ ScenarioEnd

ScenarioSpec == Init /\ [][ScenarioNext]_vars

(***************************************************************************)
(* Vocabulary of the properties.                                           *)
(***************************************************************************)
TableNames == {"bimodal_table", "gshare_table", "chooser_table"}

\* The tables init_predictor has allocated for the predictor of bp_name.
Allocated == {f \in TableNames : params[f].ptr = "heap"}

IsBimodal == pc \in {"loop", "done"} /\ params.bp_name = "bimodal"
IsGshare  == pc \in {"loop", "done"} /\ params.bp_name = "gshare"
IsHybrid  == pc \in {"loop", "done"} /\ params.bp_name = "hybrid"

\* gshare or hybrid under a configuration with N <= M1.
HasHistory == (IsGshare \/ IsHybrid) /\ params.N <= params.M1

\* A step of the trace loop that called a predictor on (addr', outcome').
Fired == pc = "loop" /\ pc' = "loop" /\ predictions' = predictions + 1

\* The addresses the index formulas are evaluated at: every setting of
\* address bits 2..5, and three addresses with alignment bits set.
ProbeAddrs == {4 * w : w \in 0..15} \cup {3, 30, 63}

(***************************************************************************)
(* C1.  Saturation law: in every state reached from the initialized        *)
(* predictor by any sequence of events (under N <= M1, the only            *)
(* configurations whose events are defined), every counter of every table  *)
(* the predictor owns is in 0..3; no event makes a counter wrap: a counter *)
(* at 3 stays 3 or goes to 2, a counter at 0 stays 0 or goes to 1, and in  *)
(* the bimodal and gshare tables a taken event leaves a 3 and a not-taken  *)
(* event leaves a 0 unchanged.                                             *)
(***************************************************************************)
CountersInRange ==
    \A f \in Allocated : \A i \in DOMAIN params[f].mem : params[f].mem[i] \in 0..3

NoWrap ==
    Fired =>
        \A f \in Allocated : \A i \in DOMAIN params[f].mem :
            LET c == params[f].mem[i]
                d == params'[f].mem[i]
            IN  /\ c = 3 => d \in {2, 3}
                /\ c = 0 => d \in {0, 1}
                /\ (f # "chooser_table" /\ c = 3 /\ outcome' = "t") => d = 3
                /\ (f # "chooser_table" /\ c = 0 /\ outcome' = "n") => d = 0

C1_Saturation == [](CountersInRange) /\ [][NoWrap]_vars

\* Three taken events on the one counter of a bimodal table: 2, 3, 3, 3.
C1_Witness ==
    /\ IsBimodal /\ params.M2 = 0
    /\ predictions = 3 /\ mispredictions = 0
    /\ params.bimodal_table.mem[0] = 3

(***************************************************************************)
(* C2.  No table access is out of bounds: for every configuration with     *)
(* N <= M1, every address and every reachable history value, the bimodal   *)
(* index is in [0, 2^M2), the gshare index (of gshare_predict and of       *)
(* hybrid_predict) is in [0, 2^M1) and the chooser index is in [0, 2^K),   *)
(* each within the table it indexes.                                       *)
(***************************************************************************)
InTable(index, m, table) == index \in 0..(2^m - 1) /\ index \in DOMAIN table.mem

C2_IndexInBounds ==
    pc = "loop" => \A a \in ProbeAddrs :
        /\ (IsBimodal \/ IsHybrid) =>
              InTable(Val(PcIndex(a, params.M2)), params.M2, params.bimodal_table)
        /\ HasHistory =>
              InTable(Val(GshareIndex(params, a)), params.M1, params.gshare_table)
        /\ IsHybrid =>
              InTable(Val(PcIndex(a, params.K)), params.K, params.chooser_table)

\* A gshare table of four counters whose last counter the next access at
\* addr reaches, the history being non-zero.
C2_Witness ==
    /\ HasHistory /\ params.M1 = 2 /\ params.N >= 1
    /\ predictions >= 1
    /\ params.global_history # {}
    /\ Val(GshareIndex(params, addr)) = 3

(***************************************************************************)
(* C3.  Bimodal step: bimodal_predict uses index i = (a >> 2) & (2^M2 - 1),*)
(* predicts taken iff the counter c read at i before the update is >= 2,   *)
(* sets counter[i] to min(c + 1, 3) if the outcome is taken and to         *)
(* max(c - 1, 0) otherwise, and returns 1 exactly when the prediction      *)
(* equals the outcome.                                                     *)
(***************************************************************************)
BimodalStep ==
    (Fired /\ params.bp_name = "bimodal") =>
        LET i == (addr' \div 4) % (2^params.M2)
            c == params.bimodal_table.mem[i]
        IN  /\ params'.bimodal_table.mem[i] =
                   (IF outcome' = "t" THEN Min(c + 1, 3) ELSE Max(c - 1, 0))
            /\ correct' = (IF (c >= 2) = (outcome' = "t") THEN 1 ELSE 0)

C3_BimodalStep == [][BimodalStep]_vars

\* Four not-taken events at index 1 of a two-counter table, the last at
\* 0x1e: the counter went 2, 1, 0, 0, 0 and only the first was mispredicted.
C3_Witness ==
    /\ IsBimodal /\ params.M2 = 1
    /\ predictions = 4 /\ mispredictions = 1
    /\ addr = 30 /\ outcome = "n" /\ correct = 1
    /\ params.bimodal_table.mem[1] = 0
    /\ params.bimodal_table.mem[0] = 2

(***************************************************************************)
(* The history register and the index formulas in arithmetic.              *)
(***************************************************************************)
\* The history register as a number.
History == Val(params.global_history)

RECURSIVE XorNat(_, _)
\* The bitwise exclusive or of two naturals.
XorNat(x, y) ==
    IF x = 0 /\ y = 0 THEN 0
    ELSE ((x + y) % 2) + 2 * XorNat(x \div 2, y \div 2)

\* The gshare index of address a under history h: the N address bits above
\* the low M1 - N index bits XORed with the history, over those low bits.
ArithGshareIndex(a, h, m1, n) ==
    LET pc_high_n   == (a \div (2^(m1 - n + 2))) % (2^n)
        xor_part    == XorNat(pc_high_n, h % (2^n))
        pc_low_bits == (a \div 4) % (2^(m1 - n))
    IN  xor_part * (2^(m1 - n)) + pc_low_bits

\* The saturating counter update.
Saturating(c, o) == IF o = "t" THEN Min(c + 1, 3) ELSE Max(c - 1, 0)

\* The first k outcomes of recent, newest first.
Last(k) == SubSeq(recent, 1, Min(k, Len(recent)))

(***************************************************************************)
(* C4.  History update rule: in gshare_predict and in hybrid_predict, on   *)
(* every event, whatever the prediction, the chooser value and the counter *)
(* updated, the history register becomes (history >> 1) | 2^(N-1) if the   *)
(* outcome is taken and history >> 1 otherwise, masked to N bits (0 when   *)
(* N = 0).  With N = 2, from history 00, the outcomes taken, taken,        *)
(* not-taken, not-taken give the histories 00, 10, 11, 01, 00.             *)
(***************************************************************************)
HistoryStep ==
    (Fired /\ params.bp_name \in {"gshare", "hybrid"}) =>
        LET n == params.N
            h == History
        IN  Val(params'.global_history) =
                IF n = 0 THEN 0
                ELSE IF outcome' = "t"
                     THEN ((h \div 2) % (2^(n - 1))) + 2^(n - 1)
                     ELSE (h \div 2) % (2^n)

HistoryScenario ==
    (HasHistory /\ params.N = 2) =>
        /\ predictions = 0 => History = 0
        /\ (predictions = 1 /\ recent = <<"t">>) => History = 2
        /\ (predictions = 2 /\ recent = <<"t", "t">>) => History = 3
        /\ (predictions = 3 /\ recent = <<"n", "t", "t">>) => History = 1
        /\ (predictions = 4 /\ recent = <<"n", "n", "t", "t">>) => History = 0

C4_HistoryUpdate == [][HistoryStep]_vars /\ [](HistoryScenario)

\* A hybrid predictor with N = 2 after taken, taken, not-taken, not-taken,
\* its chooser counters below 2 throughout (no gshare counter was trained).
C4_Witness ==
    /\ IsHybrid /\ params.N = 2
    /\ predictions = 4 /\ recent = <<"n", "n", "t", "t">>
    /\ History = 0
    /\ \A i \in DOMAIN params.gshare_table.mem : params.gshare_table.mem[i] = 2

(***************************************************************************)
(* C5.  History content: for gshare and hybrid with 1 <= N <= M1, in every *)
(* reachable state the history register is below 2^N, and after k >= N     *)
(* events it encodes exactly the last N outcomes: bit N-1 is the newest    *)
(* outcome and bit N-1-j the outcome j events earlier (1 = taken),         *)
(* whatever the addresses seen and the table contents.                     *)
(***************************************************************************)
C5_HistoryContent ==
    (HasHistory /\ params.N >= 1) =>
        /\ \A b \in params.global_history : b < 31
        /\ History < 2^params.N
        /\ predictions >= params.N =>
              \A j \in 0..(params.N - 1) :
                  ((History \div (2^(params.N - 1 - j))) % 2 = 1) <=> (recent[j + 1] = "t")

\* A two-bit history after taken then not-taken then taken: 10.
C5_Witness ==
    /\ IsGshare /\ params.N = 2 /\ params.M1 = 2
    /\ predictions = 3 /\ recent = <<"t", "n", "t">>
    /\ History = 2

(***************************************************************************)
(* C6.  Hybrid selection: the final prediction of hybrid_predict is the    *)
(* gshare vote (gshare counter >= 2) when the chooser counter read at      *)
(* (addr >> 2) & (2^K - 1) before any update is >= 2 and the bimodal vote  *)
(* (bimodal counter >= 2) otherwise; the function returns 1 exactly when   *)
(* that prediction equals the outcome, the three counters being read       *)
(* before any update of the event.                                         *)
(***************************************************************************)
HybridFired == Fired /\ params.bp_name = "hybrid"

\* The three indexes of the event (addr', outcome') and the counters read
\* at them before the event.
ChooserIdx == (addr' \div 4) % (2^params.K)
BimodalIdx == (addr' \div 4) % (2^params.M2)
GshareIdx  == ArithGshareIndex(addr', History, params.M1, params.N)
ChooserCounter == params.chooser_table.mem[ChooserIdx]
GshareVote  == params.gshare_table.mem[GshareIdx] >= 2
BimodalVote == params.bimodal_table.mem[BimodalIdx] >= 2
Taken == outcome' = "t"

HybridSelection ==
    HybridFired =>
        LET final == IF ChooserCounter >= 2 THEN GshareVote ELSE BimodalVote
        IN  correct' = (IF final = Taken THEN 1 ELSE 0)

C6_HybridSelection == [][HybridSelection]_vars

\* A taken event predicted correctly although the bimodal counter of its
\* address is 1 afterwards: had the bimodal vote been used, the counter was
\* 0 before and the prediction wrong; so the gshare vote was.
C6_Witness ==
    /\ IsHybrid /\ predictions >= 1
    /\ outcome = "t" /\ correct = 1
    /\ params.bimodal_table.mem[(addr \div 4) % (2^params.M2)] = 1

(***************************************************************************)
(* C7.  Hybrid sub-table frame: every hybrid event trains exactly one      *)
(* sub-table.  If the chooser counter before the update is >= 2, only      *)
(* gshare_table[gshare_index] may change (saturating increment on taken,   *)
(* decrement on not-taken) and the whole bimodal table is unchanged;       *)
(* otherwise only bimodal_table[bimodal_index] may change and the whole    *)
(* gshare table is unchanged.                                              *)
(***************************************************************************)
HybridFrame ==
    HybridFired =>
        IF ChooserCounter >= 2
        THEN /\ params'.bimodal_table = params.bimodal_table
             /\ params'.gshare_table.mem =
                    [params.gshare_table.mem EXCEPT
                        ![GshareIdx] = Saturating(@, outcome')]
        ELSE /\ params'.gshare_table = params.gshare_table
             /\ params'.bimodal_table.mem =
                    [params.bimodal_table.mem EXCEPT
                        ![BimodalIdx] = Saturating(@, outcome')]

ChooserStep ==
    HybridFired =>
        LET gshare_correct  == GshareVote = Taken
            bimodal_correct == BimodalVote = Taken
        IN  params'.chooser_table.mem =
                [params.chooser_table.mem EXCEPT
                    ![ChooserIdx] =
                        IF gshare_correct /\ ~bimodal_correct THEN Min(@ + 1, 3)
                        ELSE IF bimodal_correct /\ ~gshare_correct THEN Max(@ - 1, 0)
                        ELSE @]

C8_ChooserUpdate == [][ChooserStep]_vars

\* Of two chooser counters one has gone up to 3 and the other down to 0.
C8_Witness ==
    /\ IsHybrid /\ params.K = 1
    /\ {params.chooser_table.mem[0], params.chooser_table.mem[1]} = {0, 3}

(***************************************************************************)
(* C9.  Determinism: for each variant and each configuration (N <= M1),    *)
(* two runs that start from a freshly initialized predictor and replay the *)
(* same trace have, after every record and at the end, identical contents  *)
(* of every table the variant owns, identical history registers (gshare,   *)
(* hybrid) and identical prediction and misprediction counts; the next     *)
(* state and the returned correctness depend only on the current predictor *)
(* state and the event, whatever 1 << (N - 1) yields.  (predictions counts *)
(* the records read, one count for the two runs.)                          *)
(***************************************************************************)
RunsAgree ==
    pc \in {"loop", "done"} =>
        /\ \A f \in TableNames :
              /\ params2[f].ptr = params[f].ptr
              /\ params2[f].mem = params[f].mem
        /\ HasHistory => params2.global_history = params.global_history
        /\ mispredictions2 = mispredictions
        /\ correct2 = correct

StepIsFunction ==
    Fired =>
        \A ub \in ShiftChoices(params, outcome') :
            Predict(params, addr', outcome', ub) = [params |-> params', ret |-> correct']

C9_Determinism == [](RunsAgree) /\ [][StepIsFunction]_vars

\* The end of a trace of a hybrid predictor with N = 0 whose last record was
\* taken (1 << (N - 1) was evaluated) and mispredicted.
C9_Witness ==
    /\ pc = "done" /\ IsHybrid /\ params.N = 0
    /\ predictions >= 2 /\ outcome = "t" /\ correct = 0
    /\ mispredictions2 = mispredictions /\ mispredictions >= 1
    /\ params2 = params

(***************************************************************************)
(* C10.  Hybrid scenario.  As stated: from the initial hybrid state (every *)
(* chooser counter 1, every gshare and bimodal counter 2, history 0) there *)
(* is a first event that makes gshare correct while bimodal is wrong, and  *)
(* it leaves the chooser counter of its index at 2.                        *)
(***************************************************************************)
GshareAloneCorrect == GshareVote = Taken /\ BimodalVote # Taken

C10_FirstEventScenario ==
    (IsHybrid /\ pc = "loop" /\ predictions = 0 /\ params.N <= params.M1) =>
        ENABLED (ReadRecord /\ GshareAloneCorrect
                            /\ params'.chooser_table.mem[ChooserIdx] = 2)

(***************************************************************************)
(* C10 as amended: from the initial hybrid state the two sub-predictors    *)
(* vote alike on the first event, so after it every chooser counter is     *)
(* still 1; an event that makes gshare correct while bimodal is wrong at a *)
(* chooser counter of 1 (the second event at the earliest) leaves that     *)
(* counter at 2, and an event whose chooser counter is >= 2 takes its      *)
(* final prediction from the gshare vote.                                  *)
(***************************************************************************)
FirstEventKeepsChooser ==
    (IsHybrid /\ predictions <= 1) =>
        \A i \in DOMAIN params.chooser_table.mem : params.chooser_table.mem[i] = 1

ChooserTurnsToGshare ==
    HybridFired =>
        /\ (GshareAloneCorrect /\ ChooserCounter = 1) =>
              params'.chooser_table.mem[ChooserIdx] = 2
        /\ ChooserCounter >= 2 =>
              correct' = (IF GshareVote = Taken THEN 1 ELSE 0)

C10_LaterEventScenario ==
    [](FirstEventKeepsChooser) /\ [][ChooserTurnsToGshare]_vars

\* After three events a gshare counter has been trained: the third event
\* found its chooser counter at 2, where the second event had put it.
C10_Witness ==
    /\ IsHybrid /\ predictions = 3
    /\ \E i \in DOMAIN params.gshare_table.mem : params.gshare_table.mem[i] # 2

(***************************************************************************)
(* C11.  Bimodal end-to-end scenario: with M2 = 2 and the trace (0x0,t),   *)
(* (0x4,n), (0x0,t), (0x8,t) run from the initial state, at the end of the *)
(* trace counter[0] is 3, counter[1] is 1, the number of predictions is 4  *)
(* and the number of mispredictions is 1.                                  *)
(***************************************************************************)
\* The bimodal run of the scenario: M2 = 2, the loop entered.
BimodalScenario == IsBimodal /\ params.M2 = 2

C11_BimodalScenario ==
    (BimodalScenario /\ pc = "done") =>
        /\ params.bimodal_table.mem[0] = 3
        /\ params.bimodal_table.mem[1] = 1
        /\ predictions = 4
        /\ mispredictions = 1

\* The end of the scenario's trace, the last record read being (0x8, t).
C11_Witness ==
    /\ BimodalScenario /\ pc = "done"
    /\ predictions = Len(ScenarioTrace)
    /\ addr = 8 /\ outcome = "t" /\ recent = <<"t", "t", "n", "t">>
    /\ mispredictions = 1

(***************************************************************************)
(* C12.  Bimodal address mapping in the scenario, as stated: with M2 = 2,  *)
(* addresses 0x0 and 0x8 both map to index 0 and address 0x4 maps to       *)
(* index 1, so the three taken events of the trace all update counter[0]   *)
(* and no counter other than counter[0] and counter[1] is touched.         *)
(***************************************************************************)
\* The index bimodal_predict computes for address a.
BimodalIndex(a) == Val(PcIndex(a, params.M2))

C12_MappingAsStated ==
    BimodalScenario =>
        /\ BimodalIndex(0) = 0 /\ BimodalIndex(8) = 0
        /\ BimodalIndex(4) = 1
        /\ params.bimodal_table.mem[2] = 2
        /\ params.bimodal_table.mem[3] = 2

(***************************************************************************)
(* C12 as amended: with M2 = 2, address 0x0 maps to index 0, 0x4 to        *)
(* index 1 and 0x8 to index 2 ((8 >> 2) & 3 = 2).  The two taken events at *)
(* 0x0 update counter[0] (2, 3, 3), the not-taken event at 0x4 updates     *)
(* counter[1] (2, 1) and the taken event at 0x8 updates counter[2] (2, 3); *)
(* counter[3] is never touched.  After 0, 1, 2, 3, 4 records the table is  *)
(* 2222, 3222, 3122, 3122, 3132.                                           *)
(***************************************************************************)
\* A table of four counters.
Table4(c0, c1, c2, c3) == [i \in 0..3 |-> <<c0, c1, c2, c3>>[i + 1]]

C12_Mapping ==
    BimodalScenario =>
        /\ BimodalIndex(0) = 0 /\ BimodalIndex(4) = 1 /\ BimodalIndex(8) = 2
        /\ params.bimodal_table.mem =
              CASE predictions = 0 -> Table4(2, 2, 2, 2)
                [] predictions = 1 -> Table4(3, 2, 2, 2)
                [] predictions = 2 -> Table4(3, 1, 2, 2)
                [] predictions = 3 -> Table4(3, 1, 2, 2)
                [] predictions = 4 -> Table4(3, 1, 3, 2)

\* The last record, (0x8, t), has been read and has raised counter[2].
C12_Witness ==
    /\ BimodalScenario /\ pc = "loop"
    /\ predictions = 4 /\ addr = 8 /\ outcome = "t" /\ correct = 1
    /\ params.bimodal_table.mem[2] = 3

(***************************************************************************)
(* C13.  N = 0 edge case: for gshare and hybrid configured with N = 0, for *)
(* every address the gshare index equals (addr >> 2) & (2^M1 - 1), and the *)
(* history update on both taken and not-taken outcomes is evaluated        *)
(* without any shift by a negative or out-of-range amount and leaves the   *)
(* history register at 0.                                                  *)
(***************************************************************************)
NoHistoryBits == HasHistory /\ params.N = 0

\* The index is the low M1 bits of the word address; the register is 0.
ZeroBitsIndex ==
    NoHistoryBits =>
        /\ History = 0
        /\ \A a \in ProbeAddrs :
              Val(GshareIndex(params, a)) = (a \div 4) % (2^params.M1)

\* Every shift of the history update of the record just read is in range.
ZeroBitsShifts ==
    (Fired /\ NoHistoryBits) =>
        /\ \A count \in HistoryShiftCounts(params, outcome') : InIntRange(count)
        /\ params'.global_history = {}

C13_ZeroHistoryBits == [](ZeroBitsIndex) /\ [][ZeroBitsShifts]_vars

(***************************************************************************)
(* C14.  Configuration rejection: a gshare or hybrid configuration with    *)
(* N > M1 is rejected as a fatal error before any table is allocated: no   *)
(* predictor state is created and no event is ever processed under such a  *)
(* configuration.                                                          *)
(***************************************************************************)
\* main has read a gshare or hybrid command line with N > M1.
HistoryTooLong ==
    IF pc # "start" /\ params.bp_name \in {"gshare", "hybrid"}
    THEN params.N > params.M1
    ELSE FALSE

C14_ConfigurationRejected ==
    HistoryTooLong =>
        /\ \A f \in TableNames : params[f].ptr \notin {"heap", "freed"}
        /\ pc \notin {"open", "loop", "done", "undefined"}
        /\ predictions = 0

(***************************************************************************)
(* C15.  Initial state: after init_predictor, a bimodal predictor has 2^M2 *)
(* counters all equal to 2; a gshare predictor has 2^M1 counters all equal *)
(* to 2 and history 0; a hybrid predictor has 2^K chooser counters all     *)
(* equal to 1, 2^M1 gshare counters and 2^M2 bimodal counters all equal to *)
(* 2, and history 0; the table sizes never change afterwards (as long as   *)
(* the tables are allocated).                                              *)
(***************************************************************************)
\* The table has 2^m counters, all equal to v.
AllAt(table, m, v) == table.mem = [i \in 0..(2^m - 1) |-> v]

\* The size parameter of each table.
SizeBits(f) ==
    CASE f = "bimodal_table" -> params.M2
      [] f = "gshare_table"  -> params.M1
      [] f = "chooser_table" -> params.K

\* The state init_predictor leaves, main being at the fopen.
InitialState ==
    pc = "open" =>
        CASE params.bp_name = "bimodal" ->
                AllAt(params.bimodal_table, params.M2, 2)
          [] params.bp_name = "gshare" ->
                /\ AllAt(params.gshare_table, params.M1, 2)
                /\ params.global_history = {}
          [] params.bp_name = "hybrid" ->
                /\ AllAt(params.chooser_table, params.K, 1)
                /\ AllAt(params.gshare_table, params.M1, 2)
                /\ AllAt(params.bimodal_table, params.M2, 2)
                /\ params.global_history = {}

SizesKept ==
    \A f \in Allocated : DOMAIN params[f].mem = 0..(2^SizeBits(f) - 1)

SizesUnchanged ==
    (pc # "start" /\ pc' # "exit") =>
        \A f \in TableNames : DOMAIN params'[f].mem = DOMAIN params[f].mem

PcWindow(a, m1) == (a \div 4) % (2^m1)

\* The window XOR the N history bits moved to the top of the index.
WindowXorHistory(a, h, m1, n) ==
    XorNat(PcWindow(a, m1), (h % (2^n)) * (2^(m1 - n)))

\* The index the code computes at address a were the register h.
IndexUnder(h, a) == Val(GshareIndex([params EXCEPT !.global_history = Bits(h)], a))

\* From the register of the state, at the address of the last record.
IndexOfRun ==
    LET index == Val(GshareIndex(params, addr))
    IN  /\ index = WindowXorHistory(addr, History, params.M1, params.N)
        /\ params.N = params.M1 => index = XorNat(PcWindow(addr, params.M1), History)

\* For every configuration (the state before the first record), every
\* register value of up to N + 1 bits and every probe address.
IndexOfAny ==
    predictions = 0 =>
        \A h \in 0..(2^(params.N + 1) - 1) : \A a \in ProbeAddrs :
            /\ IndexUnder(h, a) = WindowXorHistory(a, h, params.M1, params.N)
            /\ IndexUnder(h, a) = IndexUnder(h, 4 * PcWindow(a, params.M1))

C16_IndexAsXor == []((HasHistory /\ pc = "loop") => (IndexOfRun /\ IndexOfAny))

\* N = M1 = 2, a register of 11 met by a record at 0x4: the next access at
\* that address goes to index 01 XOR 11 = 10.
C16_Witness ==
    /\ IsGshare /\ pc = "loop" /\ params.N = 2 /\ params.M1 = 2
    /\ predictions >= 2 /\ addr = 4 /\ History = 3
    /\ Val(GshareIndex(params, addr)) = 2

(***************************************************************************)
(* C17.  Trace loop: for every finite well-formed trace of n records (and  *)
(* N <= M1), the loop of main terminates, calls the predictor of bp_name   *)
(* exactly once per record in file order, each call on the state the       *)
(* previous one left, and ends with predictions = n and mispredictions     *)
(* equal to the number of calls that returned 0, so that                   *)
(* 0 <= mispredictions <= predictions; the two counts are no input of any  *)
(* predictor.                                                              *)
(***************************************************************************)
\* One record, one call: the new predictor state and the int returned are
\* those of one call of Predict on the state before, which takes neither
\* count; mispredictions goes up exactly when the call returns 0.
OneCallPerRecord ==
    Fired =>
        /\ \E ub \in ShiftChoices(params, outcome') :
              Predict(params, addr', outcome', ub) =
                  [params |-> params', ret |-> correct']
        /\ mispredictions' = mispredictions + (IF correct' = 0 THEN 1 ELSE 0)

\* recent is the log of the records read (its first RecentLen entries).
CountsOfTrace ==
    pc \in {"loop", "done"} =>
        /\ Len(recent) = Min(predictions, RecentLen)
        /\ predictions = 0 => mispredictions = 0
        /\ 0 <= mispredictions /\ mispredictions <= predictions
        /\ predictions <= MaxEvents

\* The loop is left only at EOF, with the counts as the last call left them.
LoopExit ==
    (pc = "loop" /\ pc' # "loop" /\ ShiftsDefined(params)) =>
        /\ pc' = "done"
        /\ UNCHANGED <<params, predictions, mispredictions>>

\* Termination: every iteration consumes one record of the finite trace
\* (CountsOfTrace bounds predictions by its length), and the loop is never
\* stuck: a record the file holds is processed, the end of the file ends it.
LoopProgress ==
    (pc = "loop" /\ pc' = "loop") => predictions' = predictions + 1

LoopNeverStuck ==
    (pc = "loop" /\ ShiftsDefined(params)) =>
        /\ predictions < MaxEvents => ENABLED ReadRecord
        /\ ENABLED EndOfTrace

C17_TraceLoop ==
    /\ [][OneCallPerRecord]_vars
    /\ [](CountsOfTrace)
    /\ [][LoopExit]_vars
    /\ [][LoopProgress]_vars
    /\ [](LoopNeverStuck)

\* The end of a gshare run on a trace of MaxEvents records, two of them
\* mispredicted, the last a not-taken record predicted correctly.
C17_Witness ==
    /\ IsGshare /\ pc = "done" /\ params.N <= params.M1
    /\ predictions = MaxEvents /\ mispredictions = 2
    /\ outcome = "n" /\ correct = 1
    /\ Len(recent) = RecentLen

(***************************************************************************)
(* C18.  Single-counter frame for bimodal and gshare: one bimodal_predict  *)
(* call changes at most the one counter at its computed index, by at most  *)
(* 1, leaves every other bimodal counter unchanged and neither reads nor   *)
(* writes the history register; one gshare_predict call changes at most    *)
(* the one gshare counter at its computed index (computed from the history *)
(* value before this event's history update), by at most 1, and leaves     *)
(* every other gshare counter unchanged.                                   *)
(***************************************************************************)
\* Between the states of a step, table f differs at most at index i, and
\* there by at most 1.
OnlyAt(f, i) ==
    /\ DOMAIN params'[f].mem = DOMAIN params[f].mem
    /\ \A j \in DOMAIN params[f].mem :
          IF j = i
          THEN params'[f].mem[j] - params[f].mem[j] \in {-1, 0, 1}
          ELSE params'[f].mem[j] = params[f].mem[j]

\* The call on the record just read, had the history register been h.
BimodalCallUnder(h) ==
    bimodal_predict([params EXCEPT !.global_history = h], addr', outcome')

BimodalFrame ==
    (Fired /\ params.bp_name = "bimodal") =>
        /\ OnlyAt("bimodal_table", PcWindow(addr', params.M2))
        /\ params'.global_history = params.global_history
        /\ \A h \in {{}, {0}} :
              /\ BimodalCallUnder(h).params.bimodal_table = params'.bimodal_table
              /\ BimodalCallUnder(h).ret = correct'

GshareFrame ==
    (Fired /\ params.bp_name = "gshare") =>
        OnlyAt("gshare_table",
               ArithGshareIndex(addr', History, params.M1, params.N))

C18_SingleCounterFrame == [][BimodalFrame]_vars /\ [][GshareFrame]_vars

\* Two taken records of a gshare run with N = M1 = 2, the second at 0x0
\* under the history 10 the first left: it raised counter[2], not the
\* counter[0] that the first, also at 0x0, had raised.
C18_Witness ==
    /\ IsGshare /\ params.M1 = 2 /\ params.N = 2
    /\ predictions = 2 /\ recent = <<"t", "t">> /\ addr = 0
    /\ params.gshare_table.mem = Table4(3, 2, 3, 2)

(***************************************************************************)
(* C19.  Unused table fields are empty: after main has set up bp_params    *)
(* and init_predictor has run for a variant, every table pointer the       *)
(* variant does not use (gshare_table and chooser_table for bimodal,       *)
(* bimodal_table and chooser_table for gshare) is null, so that            *)
(* free_predictor, reached when the trace file cannot be opened, releases  *)
(* exactly the tables init_predictor allocated and never an uninitialized  *)
(* pointer.                                                                *)
(***************************************************************************)
\* The tables the predictor of bp_name does not use.
UnusedTables ==
    CASE params.bp_name = "bimodal" -> {"gshare_table", "chooser_table"}
      [] params.bp_name = "gshare"  -> {"bimodal_table", "chooser_table"}
      [] params.bp_name = "hybrid"  -> {}

\* The failed fopen whose free_predictor frees a pointer nothing assigned.
FreesUninitialized == OpenFail /\ pc' = "undefined"

C19_UnusedTablesEmpty ==
    pc = "open" =>
        /\ \A f \in UnusedTables : params[f].ptr = "null"
        /\ ~ENABLED FreesUninitialized

(***************************************************************************)
(* C20.  Two-bit hysteresis: for the bimodal predictor, from any reachable *)
(* state, after two consecutive events that map to the same index i and    *)
(* have the same outcome o (no other event mapping to i in between), the   *)
(* prediction for the next event mapping to i is o; and a single event of  *)
(* the opposite outcome on a counter at 3 (or at 0) does not change the    *)
(* prediction at i.                                                        *)
(***************************************************************************)
\* bimodal_predict's prediction at index i in predictor state p, as an
\* outcome character.
PredictionAt(p, i) == IF p.bimodal_table.mem[i] >= 2 THEN "t" ELSE "n"

\* The addresses of the trace that map to the bimodal index of a, and the
\* records at the others.
SameIndex(a) == {b \in Addrs : PcWindow(b, params.M2) = PcWindow(a, params.M2)}
OtherRecords(a) == (Addrs \ SameIndex(a)) \X Outcomes

\* The predictor state after the call on (a, o) in state p.
After(p, a, o) == bimodal_predict(p, a, o).params

\* From the state reached: two events of outcome o at the index of a, with
\* no event or one event at another index in between; then the prediction
\* at that index is o, and the call on a third such event returns 1.
TwoAlikeDecide ==
    \A a \in Addrs, o \in Outcomes : \A a2 \in SameIndex(a) :
        LET first   == After(params, a, o)
            between == {first} \cup
                       {After(first, x[1], x[2]) : x \in OtherRecords(a)}
        IN  \A mid \in between :
                LET second == After(mid, a2, o)
                IN  /\ PredictionAt(second, PcWindow(a, params.M2)) = o
                    /\ \A a3 \in SameIndex(a) :
                          bimodal_predict(second, a3, o).ret = 1

\* From the state reached: one event against a saturated counter.
OneOppositeKeeps ==
    \A a \in Addrs :
        LET i == PcWindow(a, params.M2)
            c == params.bimodal_table.mem[i]
        IN  /\ c = 3 => PredictionAt(After(params, a, "n"), i) = "t"
            /\ c = 0 => PredictionAt(After(params, a, "t"), i) = "n"

\* In the runs themselves, for a table of one counter (every event maps to
\* index 0): after two events alike the call returns 1 exactly on that
\* outcome; and whatever the table, an event leaves the prediction at its
\* index as it was if the counter there was saturated.
HysteresisStep ==
    (Fired /\ params.bp_name = "bimodal") =>
        LET i == PcWindow(addr', params.M2)
            c == params.bimodal_table.mem[i]
        IN  /\ (params.M2 = 0 /\ Len(recent) >= 2 /\ recent[1] = recent[2]) =>
                  correct' = (IF outcome' = recent[1] THEN 1 ELSE 0)
            /\ c \in {0, 3} => PredictionAt(params', i) = PredictionAt(params, i)

C20_Hysteresis ==
    /\ []((IsBimodal /\ pc = "loop") => (TwoAlikeDecide /\ OneOppositeKeeps))
    /\ [][HysteresisStep]_vars

\* One counter; taken, taken (3), not-taken (mispredicted, 2), taken: the
\* last record is still predicted taken.
C20_Witness ==
    /\ IsBimodal /\ params.M2 = 0
    /\ predictions = 4 /\ recent = <<"t", "n", "t", "t">>
    /\ mispredictions = 1 /\ correct = 1
    /\ params.bimodal_table.mem[0] = 3

====
